---- MODULE Spec2Model ----
(***************************************************************************)
(* Model of the time-allocation engine of wtttoday.py: the interval        *)
(* algebra (merge_intervals, subtract_intervals), the break policy         *)
(* (compute_adaptive_break) and the greedy placement loop of               *)
(* ScheduleEngine.plan.  Times are integer minutes since midnight.         *)
(* An interval is a tuple <<start, end, label>> as in the source; a label  *)
(* is a natural number standing for the course name (ordered as the        *)
(* strings are).                                                           *)
(***************************************************************************)
EXTENDS Integers, Sequences, FiniteSets, TLC

\* ------------------------------------------------------------------------
\* Bounds of the model
\* ------------------------------------------------------------------------
\* largest minute used by the calls of the interval functions
MaxT == 4
\* longest interval list handed to merge_intervals / subtract_intervals
MaxIv == 2
\* largest window end handed to compute_adaptive_break
MaxWindow == 70
\* number of distinct labels of the interval lists
MaxLabel == 2
\* longest list of work items handed to plan
MaxTasks == 2
\* longest list of lectures handed to plan
MaxLectures == 1

\* ------------------------------------------------------------------------
\* Program constants
\* ------------------------------------------------------------------------
\* now_min: int | None = None
None == -1
\* plan(..., lecture_buffer_min=30, ...)
lecture_buffer_min == 30
\* plan(..., min_gap_between_study=10)
min_gap_between_study == 10
\* fmt_min_to_time: mn % (24*60)
MinutesPerDay == 1440

\* ------------------------------------------------------------------------
\* Python built-ins used by the engine
\* ------------------------------------------------------------------------
Max(a, b) == IF a >= b THEN a ELSE b
Min(a, b) == IF a <= b THEN a ELSE b
Abs(a) == IF a >= 0 THEN a ELSE 0 - a

\* int(x / d) for d > 0: truncation towards zero
TruncDiv(x, d) == IF x >= 0 THEN x \div d ELSE 0 - ((0 - x) \div d)

RECURSIVE LexLessFrom(_, _, _)
LexLessFrom(a, b, k) ==
    IF k > Len(a) \/ k > Len(b) THEN Len(a) < Len(b)
    ELSE IF a[k] < b[k] THEN TRUE
    ELSE IF a[k] > b[k] THEN FALSE
    ELSE LexLessFrom(a, b, k + 1)

\* Python's order on tuples of integers
TupleLess(a, b) == LexLessFrom(a, b, 1)

\* insert x after every element that is not greater than it (stable)
RECURSIVE InsertSorted(_, _)
InsertSorted(xs, x) ==
    IF xs = <<>> THEN <<x>>
    ELSE IF TupleLess(x, xs[Len(xs)])
         THEN Append(InsertSorted(SubSeq(xs, 1, Len(xs) - 1), x), xs[Len(xs)])
         ELSE Append(xs, x)

RECURSIVE SortedFrom(_, _, _)
SortedFrom(xs, k, acc) ==
    IF k > Len(xs) THEN acc ELSE SortedFrom(xs, k + 1, InsertSorted(acc, xs[k]))

\* sorted(xs) / xs.sort() on a list of integer tuples
Sorted(xs) == SortedFrom(xs, 1, <<>>)

Reversed(xs) == [k \in 1..Len(xs) |-> xs[Len(xs) + 1 - k]]

RECURSIVE FilterSeq(_, _)
FilterSeq(xs, keep) ==
    IF xs = <<>> THEN <<>>
    ELSE LET rest == FilterSeq(SubSeq(xs, 1, Len(xs) - 1), keep)
             x == xs[Len(xs)]
         IN IF x \in keep THEN Append(rest, x) ELSE rest

\* ------------------------------------------------------------------------
\* fmt_min_to_time: <<hour on the 12-hour clock, minute, suffix>>
\* ------------------------------------------------------------------------
fmt_min_to_time(mn0) ==
    LET mn == mn0 % MinutesPerDay
        hh == mn \div 60
        mm == mn % 60
        suf == IF hh < 12 THEN "AM" ELSE "PM"
        h12 == IF 1 <= hh /\ hh <= 12 THEN hh
               ELSE IF hh \in {0, 12} THEN 12 ELSE hh - 12
    IN <<h12, mm, suf>>

\* ------------------------------------------------------------------------
\* ScheduleEngine.merge_intervals
\* ------------------------------------------------------------------------
\* variant of MergeFrom: an interval that only touches the running one is
\* not combined with it
RECURSIVE MergeFrom_TouchingKept(_, _, _)
MergeFrom_TouchingKept(xs, k, out) ==
    IF k > Len(xs) THEN out
    ELSE LET s == xs[k][1]
             e == xs[k][2]
             last == out[Len(out)]
         IN IF s < last[2]
            THEN MergeFrom_TouchingKept(xs, k + 1,
                     [out EXCEPT ![Len(out)] = <<last[1], Max(last[2], e), last[3]>>])
            ELSE MergeFrom_TouchingKept(xs, k + 1, Append(out, xs[k]))

RECURSIVE MergeFrom(_, _, _)
MergeFrom(xs, k, out) ==
    IF k > Len(xs) THEN out
    ELSE LET s == xs[k][1]
             e == xs[k][2]
             last == out[Len(out)]
         IN IF s <= last[2]
            THEN MergeFrom(xs, k + 1,
                     [out EXCEPT ![Len(out)] = <<last[1], Max(last[2], e), last[3]>>])
            ELSE MergeFrom(xs, k + 1, Append(out, xs[k]))

merge_intervals(intervals) ==
    IF intervals = <<>> THEN <<>>
    ELSE LET xs == Sorted(intervals)
         IN MergeFrom(xs, 2, <<xs[1]>>)

\* ------------------------------------------------------------------------
\* ScheduleEngine.subtract_intervals
\* ------------------------------------------------------------------------
\* blocks = [(max(start,s), min(end,e)) ...]; blocks = [... if s < e]
ClipBlocks(start, end, busy) ==
    LET clipped == [k \in 1..Len(busy) |->
                       <<Max(start, busy[k][1]), Min(end, busy[k][2])>>]
    IN FilterSeq(clipped, {clipped[k] : k \in {j \in 1..Len(clipped) :
                                                 clipped[j][1] < clipped[j][2]}})

\* variant of SubtractWalk: the cursor is set to the end of the busy block
\* instead of the maximum of the two
RECURSIVE SubtractWalk_CursorReset(_, _, _, _, _)
SubtractWalk_CursorReset(blocks, k, cur, end, free) ==
    IF k > Len(blocks)
    THEN IF cur < end THEN Append(free, <<cur, end>>) ELSE free
    ELSE LET s == blocks[k][1]
             e == blocks[k][2]
             free1 == IF cur < s THEN Append(free, <<cur, s>>) ELSE free
             cur1 == e
         IN IF cur1 >= end
            THEN free1
            ELSE SubtractWalk_CursorReset(blocks, k + 1, cur1, end, free1)

\* the for loop over the sorted blocks, with its break, and the trailing segment
RECURSIVE SubtractWalk(_, _, _, _, _)
SubtractWalk(blocks, k, cur, end, free) ==
    IF k > Len(blocks)
    THEN IF cur < end THEN Append(free, <<cur, end>>) ELSE free
    ELSE LET s == blocks[k][1]
             e == blocks[k][2]
             free1 == IF cur < s THEN Append(free, <<cur, s>>) ELSE free
             cur1 == Max(cur, e)
         IN IF cur1 >= end
            THEN free1
            ELSE SubtractWalk(blocks, k + 1, cur1, end, free1)

subtract_intervals(start, end, busy) ==
    LET blocks == ClipBlocks(start, end, busy)
    IN IF blocks = <<>> THEN << <<start, end>> >>
       ELSE SubtractWalk(Sorted(blocks), 1, start, end, <<>>)

\* ------------------------------------------------------------------------
\* ScheduleEngine.compute_adaptive_break
\* ------------------------------------------------------------------------
\* int(max_break * (1.0 + (tired / 10.0) * 0.75)): the product is
\* max_break * (40 + 3 * tired) / 40.  For |max_break| < 100 the double
\* product truncates to the same integer as the exact quotient (the first
\* difference is max_break = 100, tired = 2); the model keeps max_break
\* below 100.
ScaledMaxBreak(max_break, tired) == TruncDiv(max_break * (40 + 3 * tired), 40)

\* slack = max(0, window_end - current_end - remaining_after)
Slack(remaining_after, current_end, window_end) ==
    Max(0, window_end - current_end - remaining_after)

\* variant of compute_adaptive_break: the last tier lacks its lower limit of 20
compute_adaptive_break_NoTwenty(remaining_after, current_end, window_end, max_break0, tired, min_gap) ==
    LET slack == Slack(remaining_after, current_end, window_end)
        max_break == ScaledMaxBreak(max_break0, tired)
        base == Max(min_gap, 0)
    IN IF max_break <= 0 \/ slack <= 5 THEN base
       ELSE IF slack <= 20 THEN Max(base, Min(10, max_break))
       ELSE IF slack <= 40 THEN Max(base, Min(15, max_break))
       ELSE Max(base, Min(max_break, slack \div 3))

compute_adaptive_break(remaining_after, current_end, window_end, max_break0, tired, min_gap) ==
    LET slack == Slack(remaining_after, current_end, window_end)
        max_break == ScaledMaxBreak(max_break0, tired)
        base == Max(min_gap, 0)
    IN IF max_break <= 0 \/ slack <= 5 THEN base
       ELSE IF slack <= 20 THEN Max(base, Min(10, max_break))
       ELSE IF slack <= 40 THEN Max(base, Min(15, max_break))
       ELSE Max(base, Min(max_break, Max(20, slack \div 3)))

\* ------------------------------------------------------------------------
\* State
\* ------------------------------------------------------------------------
VARIABLES
    pc,               \* position of the scheduling call
    day_start,        \* ScheduleEngine.day_start
    day_end,          \* ScheduleEngine.day_end
    now_min,          \* ScheduleEngine.now_min (None when not scheduling today)
    lectures,         \* plan argument: list of Lecture
    work,             \* plan argument: list of WorkItem
    block_size,       \* plan argument
    max_break,        \* plan argument
    adaptive_breaks,  \* plan argument
    tired,            \* plan argument, clamped to 1..10 on entry
    busy,             \* merged buffered lecture intervals
    pending,          \* unprepared work, sorted
    ti,               \* index in pending of the task being processed
    window_end,       \* local of the task loop
    remaining,        \* local of the task loop
    plan_blocks,      \* blocks produced so far (the returned list when done)
    lines,            \* trace lines produced so far
    fn,               \* last engine function called directly
    arg,              \* its arguments
    ret,              \* its result
    app,              \* position of the application: "off" or "running"
    db_days,          \* App.db["days"]: date -> saved lectures and plan
    week,             \* the catalog shown in the weekly tasks panel
    lec_panel,        \* the lectures shown in the lectures panel
    settings,         \* the planner panel's entries
    today,            \* the day the application runs on (date.today())
    date_var,         \* App.date_var, as a day number
    tasks_today       \* the items _get_tasks_for_day returned to generate

engineVars == <<day_start, day_end, now_min>>
callVars == <<lectures, work, block_size, max_break, adaptive_breaks, tired>>
loopVars == <<busy, pending, ti, window_end, remaining, plan_blocks, lines>>
fnVars == <<fn, arg, ret>>
appVars == <<app, db_days, week, lec_panel, settings, today, date_var, tasks_today>>
vars == <<pc, engineVars, callVars, loopVars, fnVars, appVars>>

\* ------------------------------------------------------------------------
\* Inputs of the model
\* ------------------------------------------------------------------------
DayWindows == {<<480, 1320>>, <<600, 480>>, <<480, 480>>}
NowMins == {None, 420, 540}
BlockSizes == {0, 30, 60}
MaxBreaks == {-1, 60}
TiredLevels == {1, 7}
Courses == {1}
LectureChoices == {[course |-> c, start_min |-> 600, end_min |-> 660] : c \in Courses}
DueMins == {540, 570, 900}
MinutesNeeded == {60, 90}

\* the work items that may stand at position k of the list (title k): every
\* unprepared combination and one prepared item
TaskChoices(k) ==
    {[course |-> c, title |-> k, due_min |-> d, minutes_needed |-> m, prepared |-> FALSE] :
        c \in Courses, d \in DueMins, m \in MinutesNeeded}
    \cup {[course |-> c, title |-> k, due_min |-> 900, minutes_needed |-> 60, prepared |-> TRUE] :
        c \in Courses}

RECURSIVE WorkChoices(_)
WorkChoices(n) ==
    IF n = 0 THEN {<<>>}
    ELSE {Append(wk, w) : wk \in WorkChoices(n - 1), w \in TaskChoices(n)}

SeqsUpTo(S, n) == UNION {[1..m -> S] : m \in 0..n}

\* ------------------------------------------------------------------------
\* Records of the engine
\* ------------------------------------------------------------------------
\* PlanBlock(start_min, end_min, label, kind, course, manual=False); the
\* label "Study: {course} - {title}", "Break" or "Lecture: {course}" is the
\* tuple of its parts
PlanBlock(s, e, label, kind, course) ==
    [start_min |-> s, end_min |-> e, label |-> label, kind |-> kind,
     course |-> course, manual |-> FALSE]

StudyLabel(w) == <<"Study", w.course, w.title>>
BreakLabel == <<"Break", 0, 0>>
LectureLabel(course) == <<"Lecture", course, 0>>

\* variant of BlockIntervals: the blocks placed so far are not busy
BlockIntervals_None(blocks) == <<>>

\* [(b.start_min, b.end_min, b.label) for b in plan_blocks]; the label of a
\* busy interval is never read by subtract_intervals
BlockIntervals(blocks) ==
    [k \in 1..Len(blocks) |-> <<blocks[k].start_min, blocks[k].end_min, 0>>]

\* trace lines
StudyLine(s, e, w) ==
    [tag |-> "study", t1 |-> fmt_min_to_time(s), t2 |-> fmt_min_to_time(e),
     course |-> w.course, title |-> w.title, left |-> 0]
BreakLine(s, e) ==
    [tag |-> "break", t1 |-> fmt_min_to_time(s), t2 |-> fmt_min_to_time(e),
     course |-> 0, title |-> 0, left |-> 0]
NoWindowLine(w) ==
    [tag |-> "no_window", t1 |-> fmt_min_to_time(w.due_min), t2 |-> <<>>,
     course |-> w.course, title |-> w.title, left |-> 0]
ShortfallLine(w, rem) ==
    [tag |-> "not_enough", t1 |-> fmt_min_to_time(w.due_min), t2 |-> <<>>,
     course |-> w.course, title |-> w.title, left |-> rem]
FixedHeaderLine ==
    [tag |-> "fixed_items", t1 |-> <<>>, t2 |-> <<>>,
     course |-> 0, title |-> 0, left |-> 0]
LectureLine(s, e, course) ==
    [tag |-> "lecture", t1 |-> fmt_min_to_time(s), t2 |-> fmt_min_to_time(e),
     course |-> course, title |-> 0, left |-> 0]

\* ------------------------------------------------------------------------
\* ScheduleEngine.plan: prologue
\* ------------------------------------------------------------------------
\* tired = int(max(1, min(10, tired)))
ClampTired(t) == Max(1, Min(10, t))

RECURSIVE BufferedLectures(_, _, _)
BufferedLectures(lecs, ds, de) ==
    IF lecs = <<>> THEN <<>>
    ELSE LET lec == lecs[Len(lecs)]
             rest == BufferedLectures(SubSeq(lecs, 1, Len(lecs) - 1), ds, de)
             s == Max(ds, lec.start_min - lecture_buffer_min)
             e == Min(de, lec.end_min + lecture_buffer_min)
         IN IF e > s THEN Append(rest, <<s, e, lec.course>>) ELSE rest

LectureBusy(lecs, ds, de) == merge_intervals(BufferedLectures(lecs, ds, de))

\* start_bound = self.now_min if self.now_min is not None else self.day_start
StartBound(nm, ds) == IF nm # None THEN nm ELSE ds

\* variant of TaskKey: among equal due minutes the smaller task comes first
TaskKey_SmallerFirst(w) == <<w.due_min, w.minutes_needed>>

\* key=lambda w: (w.due_min, -w.minutes_needed)
TaskKey(w) == <<w.due_min, 0 - w.minutes_needed>>

RECURSIVE InsertTask(_, _)
InsertTask(ws, w) ==
    IF ws = <<>> THEN <<w>>
    ELSE IF TupleLess(TaskKey(w), TaskKey(ws[Len(ws)]))
         THEN Append(InsertTask(SubSeq(ws, 1, Len(ws) - 1), w), ws[Len(ws)])
         ELSE Append(ws, w)

RECURSIVE SortTasksFrom(_, _, _)
SortTasksFrom(ws, k, acc) ==
    IF k > Len(ws) THEN acc ELSE SortTasksFrom(ws, k + 1, InsertTask(acc, ws[k]))

\* pending = [w for w in work if not w.prepared]; pending.sort(key=...)
Pending(wk) ==
    SortTasksFrom(FilterSeq(wk, {wk[k] : k \in {j \in 1..Len(wk) : ~wk[j].prepared}}),
                  1, <<>>)

\* ------------------------------------------------------------------------
\* ScheduleEngine.plan: one task
\* ------------------------------------------------------------------------
\* variant of choose_free_segments: the ranking is handed out back to front
choose_free_segments_Backwards(free, due_min) ==
    LET scored == [k \in 1..Len(free) |->
                      <<Abs(due_min - free[k][2]), 0 - (free[k][2] - free[k][1]),
                        free[k][1], free[k][2]>>]
        srt == Sorted(scored)
    IN Reversed([k \in 1..Len(srt) |-> <<srt[k][3], srt[k][4]>>])

\* free segments ranked by (distance of the end to due_min, -length)
choose_free_segments(free, due_min) ==
    LET scored == [k \in 1..Len(free) |->
                      <<Abs(due_min - free[k][2]), 0 - (free[k][2] - free[k][1]),
                        free[k][1], free[k][2]>>]
        srt == Sorted(scored)
    IN [k \in 1..Len(srt) |-> <<srt[k][3], srt[k][4]>>]

\* the parameters of one call, as the task loop reads them
CallOf(busy_, sb, de, bs, mb, ad, td) ==
    [busy |-> busy_, start_bound |-> sb, day_end |-> de, block_size |-> bs,
     max_break |-> mb, adaptive_breaks |-> ad, tired |-> td]

WindowStart(c) == c.start_bound

\* variant of WindowEnd: the due minute does not close the window
WindowEnd_DayEnd(c, w) == c.day_end

\* window_end = min(self.day_end, w.due_min)
WindowEnd(c, w) == Min(c.day_end, w.due_min)

\* variant of WindowCollapsed: a window of length zero is not seen as collapsed
WindowCollapsed_Strict(c, w) == WindowEnd(c, w) < WindowStart(c)

\* if window_end <= window_start: warn and continue
WindowCollapsed(c, w) == WindowEnd(c, w) <= WindowStart(c)

\* variant of Alloc: the minutes still needed do not limit the block
Alloc_IgnoreRemaining(c, rem, span) == Min(c.block_size, span)

\* alloc = min(block_size, remaining, span)
Alloc(c, rem, span) == Min(c.block_size, Min(rem, span))

\* variant of BreakAfter: the break is not clipped at the start of the window
BreakAfter_Unclipped(c, rem, start_time, we) ==
    IF rem > 0
    THEN LET brk == compute_adaptive_break(rem, start_time, we,
                        IF c.adaptive_breaks THEN c.max_break ELSE 0,
                        c.tired, min_gap_between_study + c.tired * 3)
             bstart == start_time - brk
         IN IF brk > 0 /\ bstart < start_time
            THEN <<PlanBlock(bstart, start_time, BreakLabel, "break", 0)>>
            ELSE <<>>
    ELSE <<>>

\* the Break block that follows a Study block starting at start_time, if any
BreakAfter(c, rem, start_time, we) ==
    IF rem > 0
    THEN LET brk == compute_adaptive_break(rem, start_time, we,
                        IF c.adaptive_breaks THEN c.max_break ELSE 0,
                        c.tired, min_gap_between_study + c.tired * 3)
             bstart == Max(WindowStart(c), start_time - brk)
         IN IF brk > 0 /\ bstart < start_time
            THEN <<PlanBlock(bstart, start_time, BreakLabel, "break", 0)>>
            ELSE <<>>
    ELSE <<>>

\* variant of PlaceOnce: window_end is not moved to the start of the placed
\* Study block
PlaceOnce_WindowKept(c, w, we, rem, blocks, lns) ==
    LET none == [placed |-> FALSE, plan_blocks |-> blocks, lines |-> lns,
                 remaining |-> rem, window_end |-> we]
        free == subtract_intervals(WindowStart(c), we, c.busy \o BlockIntervals(blocks))
        rev == Reversed(choose_free_segments(free, w.due_min))
        usable == {k \in 1..Len(rev) :
                      /\ rev[k][2] - rev[k][1] > 0
                      /\ Alloc(c, rem, rev[k][2] - rev[k][1]) > 0}
    IN IF free = <<>> \/ usable = {} THEN none
       ELSE LET k == CHOOSE j \in usable : \A j2 \in usable : j <= j2
                fe == rev[k][2]
                alloc == Alloc(c, rem, fe - rev[k][1])
                start_time == fe - alloc
                brks == BreakAfter(c, rem - alloc, start_time, we)
            IN [placed |-> TRUE,
                plan_blocks |-> (blocks \o <<PlanBlock(start_time, fe, StudyLabel(w), "study", w.course)>>) \o brks,
                lines |-> Append(lns, StudyLine(start_time, fe, w))
                            \o [j \in 1..Len(brks) |-> BreakLine(brks[j].start_min, brks[j].end_min)],
                remaining |-> rem - alloc,
                window_end |-> we]

\* one iteration of "while remaining > 0" (entered with rem > 0)
PlaceOnce(c, w, we, rem, blocks, lns) ==
    LET none == [placed |-> FALSE, plan_blocks |-> blocks, lines |-> lns,
                 remaining |-> rem, window_end |-> we]
        free == subtract_intervals(WindowStart(c), we, c.busy \o BlockIntervals(blocks))
        rev == Reversed(choose_free_segments(free, w.due_min))
        usable == {k \in 1..Len(rev) :
                      /\ rev[k][2] - rev[k][1] > 0
                      /\ Alloc(c, rem, rev[k][2] - rev[k][1]) > 0}
    IN IF free = <<>> \/ usable = {} THEN none
       ELSE LET k == CHOOSE j \in usable : \A j2 \in usable : j <= j2
                fe == rev[k][2]
                alloc == Alloc(c, rem, fe - rev[k][1])
                start_time == fe - alloc
                brks == BreakAfter(c, rem - alloc, start_time, we)
            IN [placed |-> TRUE,
                plan_blocks |-> (blocks \o <<PlanBlock(start_time, fe, StudyLabel(w), "study", w.course)>>) \o brks,
                lines |-> Append(lns, StudyLine(start_time, fe, w))
                            \o [j \in 1..Len(brks) |-> BreakLine(brks[j].start_min, brks[j].end_min)],
                remaining |-> rem - alloc,
                window_end |-> start_time]

\* the lecture blocks appended after all tasks
RECURSIVE LectureBlocks(_)
LectureBlocks(bz) ==
    IF bz = <<>> THEN <<>>
    ELSE Append(LectureBlocks(SubSeq(bz, 1, Len(bz) - 1)),
                PlanBlock(bz[Len(bz)][1], bz[Len(bz)][2], LectureLabel(bz[Len(bz)][3]),
                          "lecture", bz[Len(bz)][3]))

LectureLines(bz) == [k \in 1..Len(bz) |-> LectureLine(bz[k][1], bz[k][2], bz[k][3])]

\* ------------------------------------------------------------------------
\* ScheduleEngine.plan as a function of its arguments
\* ------------------------------------------------------------------------
\* "while remaining > 0: ..." followed by the shortfall warning
RECURSIVE RunLoop(_, _, _, _, _, _)
RunLoop(c, w, we, rem, blocks, lns) ==
    IF rem <= 0 THEN [plan_blocks |-> blocks, lines |-> lns]
    ELSE CHOOSE out \in
            {IF r.placed
             THEN RunLoop(c, w, r.window_end, r.remaining, r.plan_blocks, r.lines)
             ELSE [plan_blocks |-> r.plan_blocks,
                   lines |-> Append(r.lines, ShortfallLine(w, r.remaining))] :
                r \in {PlaceOnce(c, w, we, rem, blocks, lns)}} : TRUE

\* "for w in pending: ..."
RECURSIVE RunTasks(_, _, _, _, _)
RunTasks(c, pend, k, blocks, lns) ==
    IF k > Len(pend) THEN [plan_blocks |-> blocks, lines |-> lns]
    ELSE IF WindowCollapsed(c, pend[k])
         THEN RunTasks(c, pend, k + 1, blocks, Append(lns, NoWindowLine(pend[k])))
         ELSE CHOOSE out \in
                 {RunTasks(c, pend, k + 1, r.plan_blocks, r.lines) :
                     r \in {RunLoop(c, pend[k], WindowEnd(c, pend[k]),
                                    pend[k].minutes_needed, blocks, lns)}} : TRUE

\* the pair (plan_blocks, lines) returned by ScheduleEngine(ds, de, nm).plan(...)
PlanResult(ds, de, nm, lecs, wk, bs, mb, ad, td) ==
    LET bz == LectureBusy(lecs, ds, de)
        c == CallOf(bz, StartBound(nm, ds), de, bs, mb, ad, ClampTired(td))
    IN CHOOSE out \in
          {[plan_blocks |-> r.plan_blocks \o LectureBlocks(Sorted(bz)),
            lines |-> Append(r.lines, FixedHeaderLine) \o LectureLines(Sorted(bz))] :
              r \in {RunTasks(c, Pending(wk), 1, <<>>, <<>>)}} : TRUE

\* ------------------------------------------------------------------------
\* Actions
\* ------------------------------------------------------------------------
Init ==
    /\ pc = "new"
    /\ day_start = 0 /\ day_end = 0 /\ now_min = None
    /\ lectures = <<>> /\ work = <<>>
    /\ block_size = 0 /\ max_break = 0 /\ adaptive_breaks = FALSE /\ tired = 0
    /\ busy = <<>> /\ pending = <<>> /\ ti = 0
    /\ window_end = 0 /\ remaining = 0
    /\ plan_blocks = <<>> /\ lines = <<>>
    /\ fn = "none" /\ arg = <<>> /\ ret = <<>>
    /\ app = "off" /\ db_days = <<>> /\ week = <<>> /\ lec_panel = <<>>
    /\ settings = <<>> /\ today = 0 /\ date_var = 0 /\ tasks_today = <<>>

\* ScheduleEngine.__init__
Construct(ds, de, nm) ==
    /\ pc = "new"
    /\ IF ds >= de
       THEN /\ pc' = "config_error"
            /\ UNCHANGED engineVars
       ELSE /\ pc' = "ready"
            /\ day_start' = ds
            /\ day_end' = de
            /\ now_min' = nm
    /\ UNCHANGED <<callVars, loopVars, fnVars, appVars>>

\* plan, up to the loop over pending
PlanBegin(lecs, wk, bs, mb, ad, td) ==
    /\ pc = "ready"
    /\ pc' = "tasks"
    /\ lectures' = lecs
    /\ work' = wk
    /\ block_size' = bs
    /\ max_break' = mb
    /\ adaptive_breaks' = ad
    /\ tired' = ClampTired(td)
    /\ busy' = LectureBusy(lecs, day_start, day_end)
    /\ pending' = Pending(wk)
    /\ ti' = 1
    /\ plan_blocks' = <<>>
    /\ lines' = <<>>
    /\ UNCHANGED <<engineVars, window_end, remaining, fnVars, appVars>>

ThisCall == CallOf(busy, StartBound(now_min, day_start), day_end, block_size,
                   max_break, adaptive_breaks, tired)

\* "for w in pending": the window of the next task
TaskStart ==
    /\ pc = "tasks"
    /\ ti <= Len(pending)
    /\ LET w == pending[ti]
       IN IF WindowCollapsed(ThisCall, w)
          THEN /\ lines' = Append(lines, NoWindowLine(w))
               /\ ti' = ti + 1
               /\ pc' = "tasks"
               /\ UNCHANGED <<window_end, remaining>>
          ELSE /\ remaining' = w.minutes_needed
               /\ window_end' = WindowEnd(ThisCall, w)
               /\ pc' = "loop"
               /\ UNCHANGED <<lines, ti>>
    /\ UNCHANGED <<engineVars, callVars, busy, pending, plan_blocks, fnVars, appVars>>

\* an iteration of "while remaining > 0" that places a Study block
Place ==
    /\ pc = "loop"
    /\ remaining > 0
    /\ PlaceOnce(ThisCall, pending[ti], window_end, remaining, plan_blocks, lines).placed
    /\ \E r \in {PlaceOnce(ThisCall, pending[ti], window_end, remaining, plan_blocks, lines)} :
          /\ plan_blocks' = r.plan_blocks
          /\ lines' = r.lines
          /\ remaining' = r.remaining
          /\ window_end' = r.window_end
    /\ UNCHANGED <<pc, engineVars, callVars, busy, pending, ti, fnVars, appVars>>

\* the loop ends: nothing left, no free segment, or nothing placed
TaskEnd ==
    /\ pc = "loop"
    /\ \/ remaining <= 0
       \/ ~PlaceOnce(ThisCall, pending[ti], window_end, remaining, plan_blocks, lines).placed
    /\ lines' = IF remaining > 0
                THEN Append(lines, ShortfallLine(pending[ti], remaining))
                ELSE lines
    /\ ti' = ti + 1
    /\ pc' = "tasks"
    /\ UNCHANGED <<engineVars, callVars, busy, pending, window_end, remaining,
                   plan_blocks, fnVars, appVars>>

\* the fixed items and the return
Finish ==
    /\ pc = "tasks"
    /\ ti > Len(pending)
    /\ lines' = (Append(lines, FixedHeaderLine)) \o LectureLines(Sorted(busy))
    /\ plan_blocks' = plan_blocks \o LectureBlocks(Sorted(busy))
    /\ pc' = "done"
    /\ UNCHANGED <<engineVars, callVars, busy, pending, ti, window_end, remaining, fnVars,
                   appVars>>

\* ScheduleEngine(day_start, day_end, now_min=now_min)
NewEngine ==
    /\ pc = "new"
    /\ \E dw \in DayWindows, nm \in NowMins : Construct(dw[1], dw[2], nm)

\* eng.plan(lectures=..., work=..., block_size=..., ...)
CallPlan ==
    /\ pc = "ready"
    /\ \E lecs \in SeqsUpTo(LectureChoices, MaxLectures),
          wk \in UNION {WorkChoices(n) : n \in 0..MaxTasks},
          bs \in BlockSizes, mb \in MaxBreaks, ad \in BOOLEAN, td \in TiredLevels :
          PlanBegin(lecs, wk, bs, mb, ad, td)

Next ==
    \/ NewEngine
    \/ CallPlan
    \/ TaskStart
    \/ Place
    \/ TaskEnd
    \/ Finish

Spec == Init /\ [][Next]_vars

\* ------------------------------------------------------------------------
\* Direct calls of the engine's functions
\* ------------------------------------------------------------------------
\* intervals (start, end, label) with start < end
Intervals(labels) ==
    UNION {{<<s, e, l>> : e \in (s + 1)..MaxT, l \in labels} : s \in 0..MaxT}

BreakRemaining == {0, 6}
BreakCurrentEnds == {0, 10}
BreakMaxBreaks == {-5, 0, 12, 60}
BreakFloors == {-3, 0, 16}
TiredRange == 1..10

CallMerge ==
    /\ fn = "none"
    /\ \E ivs \in SeqsUpTo(Intervals(1..MaxLabel), MaxIv) :
          /\ fn' = "merge"
          /\ arg' = <<ivs>>
          /\ ret' = merge_intervals(ivs)
    /\ UNCHANGED <<pc, engineVars, callVars, loopVars, appVars>>

CallSubtract ==
    /\ fn = "none"
    /\ \E start \in 0..MaxT, end \in 0..MaxT, bz \in SeqsUpTo(Intervals({1}), MaxIv) :
          /\ fn' = "subtract"
          /\ arg' = <<start, end, bz>>
          /\ ret' = subtract_intervals(start, end, bz)
    /\ UNCHANGED <<pc, engineVars, callVars, loopVars, appVars>>

CallBreak ==
    /\ fn = "none"
    /\ \E ra \in BreakRemaining, ce \in BreakCurrentEnds, we \in 0..MaxWindow,
          mb \in BreakMaxBreaks, td \in TiredRange, fl \in BreakFloors :
          /\ fn' = "break"
          /\ arg' = <<ra, ce, we, mb, td, fl>>
          /\ ret' = compute_adaptive_break(ra, ce, we, mb, td, fl)
    /\ UNCHANGED <<pc, engineVars, callVars, loopVars, appVars>>

NextFn ==
    \/ CallMerge
    \/ CallSubtract
    \/ CallBreak

SpecFn == Init /\ [][NextFn]_vars

\* ------------------------------------------------------------------------
\* The application: shares of multi-day tasks and the saved plans
\* ------------------------------------------------------------------------
\* dates are day numbers 0..MaxDay (the code orders the ISO dates it parses)
MaxDay == 3
Days == 0..MaxDay

\* the days the application may be started on
StartDays == {0, 1}

\* the minute generate passes as now_min when the date is the current day
AppNowMins == {540}

\* the catalog: one task of course 1 with title 1, possibly after a prepared
\* item with title 2 (repeat_weekly is never read and is left out)
CatalogNeeded == {40, 100}
CatalogTasks ==
    {[course |-> 1, title |-> 1, date_iso |-> dd, due_min |-> 900,
      minutes_needed |-> m, prepared |-> FALSE] : dd \in Days, m \in CatalogNeeded}
PreparedTask ==
    [course |-> 1, title |-> 2, date_iso |-> 0, due_min |-> 900,
     minutes_needed |-> 60, prepared |-> TRUE]
Catalogs ==
    {<<w>> : w \in CatalogTasks} \cup {<<PreparedTask>>}
    \cup {<<PreparedTask, w>> : w \in {x \in CatalogTasks : x.minutes_needed = 40 /\ x.date_iso = 1}}

\* the lectures panel: empty, or the lecture of 10:00 to 11:00
PanelLectures == {<<>>} \cup {<<l>> : l \in LectureChoices}

\* the planner entries, times already in minutes; the second is refused
SettingsChoices ==
    {[day_start |-> 480, day_end |-> 1320, block |-> 60, max_break |-> 60, tired |-> 1],
     [day_start |-> 480, day_end |-> 1320, block |-> 0, max_break |-> 60, tired |-> 1]}

\* the minutes of the Study blocks of a saved plan that carry the label
RECURSIVE PlannedIn(_, _, _)
PlannedIn(plan, label, k) ==
    IF k > Len(plan) THEN 0
    ELSE (IF plan[k].kind = "study" /\ plan[k].label = label
          THEN Max(0, plan[k].end_min - plan[k].start_min)
          ELSE 0) + PlannedIn(plan, label, k + 1)

RECURSIVE PlannedOn(_, _, _)
PlannedOn(days, ds, label) ==
    IF ds = {} THEN 0
    ELSE LET d == CHOOSE x \in ds : TRUE
         IN PlannedIn(days[d].plan, label, 1) + PlannedOn(days, ds \ {d}, label)

\* variant of previously_planned_minutes: the plan saved for the date itself
\* counts as well
previously_planned_minutes_SameDay(days, cur, course, title) ==
    PlannedOn(days, {d \in DOMAIN days : ~(d > cur)}, <<"Study", course, title>>)

\* "if d >= cur: continue": only the dates before cur count
previously_planned_minutes(days, cur, course, title) ==
    PlannedOn(days, {d \in DOMAIN days : ~(d >= cur)}, <<"Study", course, title>>)

\* variant of RemainingOf: the saved plans are not subtracted
RemainingOf_NoHistory(w, days, cur) == Max(0, w.minutes_needed)

\* remaining = max(0, total - previously_planned_minutes(w.course, w.title))
RemainingOf(w, days, cur) ==
    Max(0, w.minutes_needed - previously_planned_minutes(days, cur, w.course, w.title))

\* variant of Parts: the day before the due date is one part
Parts_NoHalving(days_until) == days_until

\* parts = 2 if days_until == 1 else days_until
Parts(days_until) == IF days_until = 1 THEN 2 ELSE days_until

\* share and due_min_today for an item with remaining > 0
ShareOf(rem, days_until) ==
    IF days_until < 0 THEN rem
    ELSE IF days_until = 0 THEN rem
    ELSE Max(1, (rem + Parts(days_until) - 1) \div Parts(days_until))

DueMinToday(w, days_until) ==
    IF days_until < 0 THEN 23 * 60 + 59
    ELSE IF days_until = 0 THEN w.due_min
    ELSE 23 * 60 + 59

\* "for w in self.week.export(): ..." from item k on
RECURSIVE TasksFrom(_, _, _, _)
TasksFrom(wk, days, cur, k) ==
    IF k > Len(wk) THEN <<>>
    ELSE LET w == wk[k]
             rest == TasksFrom(wk, days, cur, k + 1)
             rem == RemainingOf(w, days, cur)
             days_until == w.date_iso - cur
         IN IF w.prepared \/ rem = 0 THEN rest
            ELSE <<[course |-> w.course, title |-> w.title, date_iso |-> w.date_iso,
                    due_min |-> DueMinToday(w, days_until),
                    minutes_needed |-> ShareOf(rem, days_until),
                    prepared |-> FALSE]>> \o rest

\* App._get_tasks_for_day(date_iso)
get_tasks_for_day(wk, days, cur) == TasksFrom(wk, days, cur, 1)

\* App._persist_plan: the day's entry is replaced
persist_plan(days, key, lecs, blocks) ==
    [d \in DOMAIN days \cup {key} |->
        IF d = key THEN [lectures |-> lecs, plan |-> blocks] ELSE days[d]]

\* the checks of PlannerPanel.generate on its entries
SettingsRefused(st) ==
    \/ ~(0 <= st.day_start /\ st.day_start < st.day_end /\ st.day_end <= MinutesPerDay)
    \/ st.block <= 0
    \/ st.max_break < 0

\* PlannerPanel.generate for date d: the items it asked for and the saved days
generate(days, wk, lecs, st, d, nm) ==
    IF SettingsRefused(st) THEN [refused |-> TRUE, tasks |-> <<>>, days |-> days]
    ELSE LET items == get_tasks_for_day(wk, days, d)
             r == PlanResult(st.day_start, st.day_end, nm, lecs, items,
                             st.block, st.max_break, TRUE, st.tired)
         IN [refused |-> FALSE, tasks |-> items,
             days |-> persist_plan(days, d, lecs, r.plan_blocks)]

\* App.__init__ with no saved days: the panels are loaded for the current
\* day and _load_for_date generates its plan
Start ==
    /\ app = "off"
    /\ \E td \in StartDays, wk \in Catalogs, lecs \in PanelLectures,
          st \in SettingsChoices, nm \in AppNowMins :
          \E g \in {generate(<<>>, wk, lecs, st, td, nm)} :
             /\ app' = "running"
             /\ week' = wk
             /\ lec_panel' = lecs
             /\ settings' = st
             /\ today' = td
             /\ date_var' = td
             /\ tasks_today' = g.tasks
             /\ db_days' = g.days
    /\ UNCHANGED <<pc, engineVars, callVars, loopVars, fnVars>>

\* the user types a date in the date entry and asks for its plan
\* (PlannerPanel.generate, Ctrl+Return); now_min is set when the date is the
\* current day
Generate ==
    /\ app = "running"
    /\ ~SettingsRefused(settings)
    /\ \E d \in Days, nm \in AppNowMins :
          \E g \in {generate(db_days, week, lec_panel, settings, d,
                               IF d = today THEN nm ELSE None)} :
             /\ date_var' = d
             /\ tasks_today' = g.tasks
             /\ db_days' = g.days
    /\ UNCHANGED <<app, week, lec_panel, settings, today>>
    /\ UNCHANGED <<pc, engineVars, callVars, loopVars, fnVars>>

NextApp ==
    \/ Start
    \/ Generate

SpecApp == Init /\ [][NextApp]_vars

\* ------------------------------------------------------------------------
\* Properties of the interval functions and of the break policy (SpecFn)
\* ------------------------------------------------------------------------
\* the minutes of [s, e)
Minutes(s, e) == s..(e - 1)

\* C7: subtract_intervals(s, e, busy) with s < e returns the exact complement
\* of the busy set inside [s, e): no returned segment reaches outside [s, e),
\* a minute of [s, e) covered by a busy interval is in no free segment, and
\* every other minute of [s, e) is in exactly one free segment.
C7_SubtractIsComplement ==
    (fn = "subtract" /\ arg[1] < arg[2]) =>
        LET s == arg[1]
            e == arg[2]
            bz == arg[3]
            busyMinutes == UNION {Minutes(Max(s, bz[k][1]), Min(e, bz[k][2])) : k \in DOMAIN bz}
            freeAt(m) == {k \in DOMAIN ret : ret[k][1] <= m /\ m < ret[k][2]}
        IN /\ \A k \in DOMAIN ret : s <= ret[k][1] /\ ret[k][2] <= e
           /\ \A m \in Minutes(s, e) :
                 IF m \in busyMinutes THEN freeAt(m) = {}
                 ELSE Cardinality(freeAt(m)) = 1

\* an unsorted busy list with two overlapping intervals, one of them partly
\* before the window, and a free segment found
C7_Witness ==
    /\ fn = "subtract" /\ arg[1] < arg[2]
    /\ Len(arg[3]) >= 2
    /\ arg[3][1][1] > arg[3][2][1]
    /\ arg[3][2][1] < arg[1]
    /\ arg[3][1][1] < arg[3][2][2]
    /\ Len(ret) >= 1

\* C8: for every call subtract_intervals(start, end, busy), every returned
\* segment has strictly positive length, the segments are sorted by start,
\* and an empty window (start >= end) yields no free segment.
C8_SubtractPositiveSegments ==
    fn = "subtract" =>
        /\ \A k \in DOMAIN ret : ret[k][1] < ret[k][2]
        /\ \A k \in 1..(Len(ret) - 1) : ret[k][1] < ret[k + 1][1]
        /\ (arg[1] >= arg[2] => ret = <<>>)

\* C9: merge_intervals returns intervals each starting strictly after the
\* previous one ends, covering exactly the minutes of the inputs, each with
\* the label of the input that sorts first among those inside it; empty input
\* gives empty output; merging the result again changes nothing.
C9_MergeIntervals ==
    fn = "merge" =>
        LET ivs == arg[1]
            members(o) == {j \in DOMAIN ivs : o[1] <= ivs[j][1] /\ ivs[j][2] <= o[2]}
            first(o) == CHOOSE j \in members(o) :
                            \A j2 \in members(o) : ~TupleLess(ivs[j2], ivs[j])
        IN /\ \A k \in 1..(Len(ret) - 1) : ret[k + 1][1] > ret[k][2]
           /\ UNION {Minutes(ret[k][1], ret[k][2]) : k \in DOMAIN ret}
                 = UNION {Minutes(ivs[j][1], ivs[j][2]) : j \in DOMAIN ivs}
           /\ \A k \in DOMAIN ret :
                 /\ members(ret[k]) # {}
                 /\ ret[k][3] = ivs[first(ret[k])][3]
           /\ (ivs = <<>> => ret = <<>>)
           /\ merge_intervals(ret) = ret

\* inputs given out of order, two of them only touching, combined into one
\* interval whose label is not that of the first list element
C9_Witness ==
    /\ fn = "merge"
    /\ Len(arg[1]) >= 2 /\ Len(ret) = 1
    /\ ret[1][3] # arg[1][1][3]
    /\ \E j, k \in DOMAIN arg[1] : arg[1][j][2] = arg[1][k][1]

\* C10: for max_break >= 0, compute_adaptive_break never returns less for a
\* larger slack (other arguments fixed), never returns less for a larger
\* tired in 1..10 (other arguments fixed), and never returns less than floor.
C10_BreakMonotone ==
    (fn = "break" /\ arg[4] >= 0) =>
        /\ \A ra \in BreakRemaining, ce \in BreakCurrentEnds, we \in 0..MaxWindow :
              Slack(ra, ce, we) >= Slack(arg[1], arg[2], arg[3])
                 => compute_adaptive_break(ra, ce, we, arg[4], arg[5], arg[6]) >= ret
        /\ \A td \in TiredRange :
              td >= arg[5]
                 => compute_adaptive_break(arg[1], arg[2], arg[3], arg[4], td, arg[6]) >= ret
        /\ ret >= arg[6]

\* a break of the last tier: slack above 60, the break above 20 and above floor
C10_Witness ==
    /\ fn = "break" /\ arg[4] >= 0
    /\ Slack(arg[1], arg[2], arg[3]) > 60
    /\ ret > 20 /\ ret > arg[6]

\* ------------------------------------------------------------------------
\* Properties of ScheduleEngine.plan (Spec)
\* ------------------------------------------------------------------------
\* the configuration of the running call is valid (day_start < day_end holds
\* of every constructed engine)
ValidConfig == block_size > 0 /\ max_break >= 0 /\ tired \in 1..10

Overlap(a, b) == a.start_min < b.end_min /\ b.start_min < a.end_min

StudyBlocksOf(blocks, w) ==
    {k \in DOMAIN blocks : blocks[k].kind = "study" /\ blocks[k].label = StudyLabel(w)}

RECURSIVE SumLengths(_, _)
SumLengths(blocks, ks) ==
    IF ks = {} THEN 0
    ELSE LET k == CHOOSE j \in ks : TRUE
         IN (blocks[k].end_min - blocks[k].start_min) + SumLengths(blocks, ks \ {k})

\* minutes of Study placed for w
StudyMinutes(blocks, w) == SumLengths(blocks, StudyBlocksOf(blocks, w))

WarningLinesOf(lns, w, tags) ==
    {k \in DOMAIN lns : lns[k].tag \in tags /\ lns[k].course = w.course
                        /\ lns[k].title = w.title}

\* C1: with a valid configuration, no two returned blocks of kind study or
\* break overlap.
C1_StudyBreakDisjoint ==
    (pc = "done" /\ ValidConfig) =>
        \A i, j \in DOMAIN plan_blocks :
            (i < j /\ plan_blocks[i].kind \in {"study", "break"}
                   /\ plan_blocks[j].kind \in {"study", "break"})
                => ~Overlap(plan_blocks[i], plan_blocks[j])

\* C2: with a valid configuration and any horizon, every returned block has
\* start < end and lies inside [day_start, day_end].
C2_BlocksInsideDay ==
    (pc = "done" /\ ValidConfig) =>
        \A k \in DOMAIN plan_blocks :
            /\ plan_blocks[k].start_min < plan_blocks[k].end_min
            /\ day_start <= plan_blocks[k].start_min
            /\ plan_blocks[k].end_min <= day_end

\* Example 1 of the specification
IsExample1 ==
    /\ day_start = 480 /\ day_end = 1320 /\ now_min = None
    /\ lectures = <<[course |-> 1, start_min |-> 600, end_min |-> 660]>>
    /\ Len(work) = 1 /\ ~work[1].prepared
    /\ work[1].due_min = 900 /\ work[1].minutes_needed = 90
    /\ block_size = 60 /\ max_break >= 0 /\ tired \in 1..10

\* C3: in Example 1 the Study blocks of the task all end at or before 900,
\* none overlaps [570, 690), there are at most 2 of them, their lengths total
\* exactly 90 and no shortfall is reported.
C3_Example1 ==
    (pc = "done" /\ IsExample1) =>
        LET ks == StudyBlocksOf(plan_blocks, work[1])
        IN /\ \A k \in ks : plan_blocks[k].end_min <= 900
           /\ \A k \in ks : plan_blocks[k].end_min <= 570 \/ plan_blocks[k].start_min >= 690
           /\ Cardinality(ks) <= 2
           /\ SumLengths(plan_blocks, ks) = 90
           /\ WarningLinesOf(lines, work[1], {"not_enough", "no_window"}) = {}

\* C4: a call with day_start >= day_end, block_size <= 0 or max_break < 0
\* ends in a configuration error: it attempts no placement and returns no
\* block list.
C4_ConfigErrorsFatal ==
    /\ (pc = "config_error" => plan_blocks = <<>>)
    /\ (pc \in {"tasks", "loop", "done"} => (block_size > 0 /\ max_break >= 0))

\* C5 (state part): when the call returns, for every unprepared task with a
\* non-empty window the Study minutes placed for it do not exceed
\* minutes_needed, a "Not enough time" line exists for it exactly when they
\* are fewer, that line is unique and reports minutes_needed minus the placed
\* minutes; a task with a collapsed window has its own warning, so every task
\* of the order has been processed.
ShortfallAccounted ==
    pc = "done" =>
        \A k \in DOMAIN pending :
            LET w == pending[k]
                placed == StudyMinutes(plan_blocks, w)
                warned == WarningLinesOf(lines, w, {"not_enough"})
            IN IF StartBound(now_min, day_start) >= Min(day_end, w.due_min)
               THEN WarningLinesOf(lines, w, {"no_window"}) # {}
               ELSE /\ placed <= w.minutes_needed
                    /\ (warned # {}) <=> (placed < w.minutes_needed)
                    /\ Cardinality(warned) <= 1
                    /\ \A j \in warned : lines[j].left = w.minutes_needed - placed

\* C5 (step part): no step of a call removes or changes a block already placed
BlocksKept ==
    /\ Len(plan_blocks') >= Len(plan_blocks)
    /\ SubSeq(plan_blocks', 1, Len(plan_blocks)) = plan_blocks

\* C5: shortfalls are soft and exactly accounted (ShortfallAccounted), and
\* the blocks placed before a shortfall stay in the list (BlocksKept).
C5_ShortfallSoft == [](ShortfallAccounted) /\ [][BlocksKept]_vars

\* a returned plan where one task is short after a Study block was placed for
\* it, and a task later in the order got a Study block too
C5_Witness ==
    /\ pc = "done"
    /\ \E k \in DOMAIN pending : \E k2 \in DOMAIN pending :
          /\ k < k2
          /\ StartBound(now_min, day_start) < Min(day_end, pending[k].due_min)
          /\ StudyMinutes(plan_blocks, pending[k]) > 0
          /\ StudyMinutes(plan_blocks, pending[k]) < pending[k].minutes_needed
          /\ StudyMinutes(plan_blocks, pending[k2]) > 0

RemoveAt(xs, k) == SubSeq(xs, 1, k - 1) \o SubSeq(xs, k + 1, Len(xs))

\* the horizon is at or after the end of the window of w
Collapses(w) == StartBound(now_min, day_start) >= Min(day_end, w.due_min)

\* C6: an unprepared task whose window collapses gets no Study block and
\* exactly one warning line (the "No window left" line), and the returned
\* blocks are those plan returns when the task is absent from the input.
C6_CollapsedTaskSkipped ==
    pc = "done" =>
        \A k \in DOMAIN work :
            (~work[k].prepared /\ Collapses(work[k])) =>
                /\ StudyBlocksOf(plan_blocks, work[k]) = {}
                /\ Cardinality(WarningLinesOf(lines, work[k], {"no_window", "not_enough"})) = 1
                /\ WarningLinesOf(lines, work[k], {"no_window"}) # {}
                /\ plan_blocks = PlanResult(day_start, day_end, now_min, lectures,
                                            RemoveAt(work, k), block_size, max_break,
                                            adaptive_breaks, tired).plan_blocks

\* a returned plan with a collapsed task and another task that got blocks
C6_Witness ==
    /\ pc = "done"
    /\ \E k, k2 \in DOMAIN work :
          /\ ~work[k].prepared /\ Collapses(work[k])
          /\ ~work[k2].prepared /\ ~Collapses(work[k2])
          /\ StudyBlocksOf(plan_blocks, work[k2]) # {}

\* ------------------------------------------------------------------------
\* Properties of the shares of multi-day tasks (SpecApp)
\* ------------------------------------------------------------------------
\* the smallest q with q * b >= a, for a >= 0 and b > 0
CeilDiv(a, b) == CHOOSE q \in 0..a : q * b >= a /\ (q = 0 \/ (q - 1) * b < a)

\* Study minutes saved for w on the dates 0..d
RECURSIVE CommittedUpTo(_, _)
CommittedUpTo(w, d) ==
    IF d < 0 THEN 0
    ELSE (IF d \in DOMAIN db_days THEN StudyMinutes(db_days[d].plan, w) ELSE 0)
         + CommittedUpTo(w, d - 1)

\* the items generate received for w
ItemsFor(w) ==
    {k \in DOMAIN tasks_today :
        tasks_today[k].course = w.course /\ tasks_today[k].title = w.title}

\* a plan has just been generated for date_var
Generated == app = "running" /\ ~SettingsRefused(settings)

\* C11: for each unprepared catalog item, with remaining = max(0,
\* minutes_needed - prior minutes), _get_tasks_for_day produces no item when
\* remaining = 0 and otherwise exactly one unprepared item whose share is
\* remaining (overdue, or due that day), ceil(remaining/2) (due the next day)
\* or ceil(remaining/days_until) (due later), and whose due minute is the
\* item's own on the due date and 23:59 otherwise; a prepared item produces
\* nothing. 100 minutes due in 3 days without history give 34, and 40
\* minutes overdue by a day give 40 due at 23:59.
C11_ShareForDay ==
    Generated =>
        /\ \A k \in DOMAIN tasks_today : ~tasks_today[k].prepared
        /\ \A k \in DOMAIN tasks_today : \E j \in DOMAIN week : k \in ItemsFor(week[j])
        /\ \A j \in DOMAIN week :
              LET w == week[j]
                  rem == Max(0, w.minutes_needed - CommittedUpTo(w, date_var - 1))
                  du == w.date_iso - date_var
              IN IF w.prepared \/ rem = 0 THEN ItemsFor(w) = {}
                 ELSE /\ Cardinality(ItemsFor(w)) = 1
                      /\ \A k \in ItemsFor(w) :
                            /\ tasks_today[k].minutes_needed =
                                  (IF du <= 0 THEN rem
                                   ELSE IF du = 1 THEN CeilDiv(rem, 2)
                                   ELSE CeilDiv(rem, du))
                            /\ tasks_today[k].due_min = (IF du = 0 THEN w.due_min ELSE 1439)
                            /\ (w.minutes_needed = 100 /\ du = 3 /\ rem = 100)
                                  => tasks_today[k].minutes_needed = 34
                            /\ (w.minutes_needed = 40 /\ du = 0 - 1 /\ rem = 40)
                                  => (tasks_today[k].minutes_needed = 40
                                      /\ tasks_today[k].due_min = 1439)

\* the share of a task due the next day was computed from an odd remainder
\* left by an earlier day's plan
C11_Witness ==
    /\ Generated
    /\ \E j \in DOMAIN week :
          /\ ~week[j].prepared
          /\ week[j].date_iso - date_var = 1
          /\ CommittedUpTo(week[j], date_var - 1) > 0
          /\ (week[j].minutes_needed - CommittedUpTo(week[j], date_var - 1)) % 2 = 1
          /\ ItemsFor(week[j]) # {}

\* the share _get_tasks_for_day gives w for date d with the saved days as
\* they are (0 when it produces no item)
ShareNow(w, d) ==
    LET items == get_tasks_for_day(week, db_days, d)
        ks == {k \in DOMAIN items : items[k].course = w.course /\ items[k].title = w.title}
    IN IF ks = {} THEN 0 ELSE items[CHOOSE k \in ks : TRUE].minutes_needed

\* the saved days are those of scheduling every date from t through the due
\* date of w once, in increasing order, from an empty history: exactly these
\* dates have a plan, and each plan holds the whole share that the plans of
\* the earlier dates determine
ScheduledInOrder(w, t) ==
    /\ t <= w.date_iso
    /\ DOMAIN db_days = t..w.date_iso
    /\ \A d \in t..w.date_iso : StudyMinutes(db_days[d].plan, w) = ShareNow(w, d)

\* C12: when every date from a first day through the due date was scheduled
\* once in increasing order from an empty history, each share fully placed
\* and saved, the saved Study minutes of the task sum to its minutes_needed;
\* and on any date before which at least minutes_needed are saved the
\* allocator produces no item for the task.
C12_SharesSumToNeeded ==
    Generated =>
        \A j \in DOMAIN week :
            ~week[j].prepared =>
                /\ \A t \in Days :
                      ScheduledInOrder(week[j], t) =>
                          /\ CommittedUpTo(week[j], week[j].date_iso) = week[j].minutes_needed
                          /\ \A d \in Days : d > week[j].date_iso => ShareNow(week[j], d) = 0
                /\ \A d \in Days :
                      CommittedUpTo(week[j], d - 1) >= week[j].minutes_needed
                          => ShareNow(week[j], d) = 0

\* the four dates up to the due date were scheduled in order, each with a
\* share of its own
C12_Witness ==
    /\ Generated
    /\ \E j \in DOMAIN week :
          /\ ~week[j].prepared
          /\ week[j].date_iso >= 3
          /\ ScheduledInOrder(week[j], week[j].date_iso - 3)
          /\ \A d \in (week[j].date_iso - 3)..week[j].date_iso : ShareNow(week[j], d) > 0

\* plans that may be put in place of a saved plan: none, any saved plan, an
\* hour of Study for a catalog item
OtherPlans ==
    {<<>>} \cup {db_days[e].plan : e \in DOMAIN db_days}
    \cup {<<PlanBlock(480, 540, StudyLabel(week[j]), "study", week[j].course)>> :
             j \in DOMAIN week}

\* the saved days with plans for d or later dates removed, added or changed
LaterChanged(d) ==
    {[e \in keep |-> db_days[e]] :
        keep \in {ks \in SUBSET (DOMAIN db_days) : \A e \in DOMAIN db_days : e < d => e \in ks}}
    \cup {persist_plan(db_days, e, <<>>, p) : e \in {x \in Days : x >= d}, p \in OtherPlans}

\* the minutes of plan, saved as one Study block per catalog item between a
\* Break block and a Study block of another title
RECURSIVE SameMinutes(_, _)
SameMinutes(plan, j) ==
    IF j > Len(week)
    THEN <<PlanBlock(0, 30, BreakLabel, "break", 0),
           PlanBlock(30, 90, <<"Study", 1, 0>>, "study", 1)>>
    ELSE <<PlanBlock(600, 600 + StudyMinutes(plan, week[j]), StudyLabel(week[j]),
                     "study", week[j].course)>> \o SameMinutes(plan, j + 1)

\* the saved days with every plan before d rewritten by SameMinutes
EarlierRewritten(d) ==
    [e \in DOMAIN db_days |->
        IF e < d THEN [lectures |-> <<>>, plan |-> SameMinutes(db_days[e].plan, 1)]
        ELSE db_days[e]]

\* C13: the items produced for a date depend on the saved days only through
\* the Study minutes saved under the task's label on earlier dates. The items
\* generate received are those a second call gives once the date's own plan
\* is saved; removing, adding or changing the plan of the date itself or of a
\* later date leaves the items of the date unchanged; and so does rewriting
\* the earlier plans into other blocks with the same minutes under the label.
C13_ForwardOnly ==
    Generated =>
        /\ tasks_today = get_tasks_for_day(week, db_days, date_var)
        /\ \A d \in Days :
              /\ \A h \in LaterChanged(d) :
                    get_tasks_for_day(week, h, d) = get_tasks_for_day(week, db_days, d)
              /\ get_tasks_for_day(week, EarlierRewritten(d), d)
                    = get_tasks_for_day(week, db_days, d)

\* a share was produced for a date with Study saved before it, on it and
\* after it
C13_Witness ==
    /\ Generated
    /\ tasks_today # <<>>
    /\ \E j \in DOMAIN week, e1, e2 \in DOMAIN db_days :
          /\ e1 < date_var /\ date_var < e2
          /\ StudyMinutes(db_days[e1].plan, week[j]) > 0
          /\ StudyMinutes(db_days[date_var].plan, week[j]) > 0
          /\ StudyMinutes(db_days[e2].plan, week[j]) > 0

\* ------------------------------------------------------------------------
\* Properties of the task loop of plan (Spec)
\* ------------------------------------------------------------------------
\* the Study blocks of the task being processed
CurrentStudy == StudyBlocksOf(plan_blocks, pending[ti])

\* what a step of plan does to the loop: it returns, or goes to the next
\* task, or enters the loop of a task whose window is not empty, or places a
\* Study block that starts at the new window_end, ends at or before the old
\* one and leaves window_end at or after the start of the window; and when an
\* iteration places nothing the loop is left
LoopStep ==
    pc \in {"tasks", "loop"} =>
        /\ \/ pc = "tasks" /\ pc' = "done" /\ ti > Len(pending)
           \/ pc' = "tasks" /\ ti' = ti + 1 /\ ti <= Len(pending) /\ plan_blocks' = plan_blocks
           \/ /\ pc = "tasks" /\ pc' = "loop" /\ ti' = ti
              /\ window_end' > StartBound(now_min, day_start)
              /\ plan_blocks' = plan_blocks
           \/ /\ pc = "loop" /\ pc' = "loop" /\ ti' = ti
              /\ window_end' < window_end
              /\ window_end' >= StartBound(now_min, day_start)
              /\ \E k \in DOMAIN plan_blocks' \ DOMAIN plan_blocks :
                    /\ plan_blocks'[k].kind = "study"
                    /\ plan_blocks'[k].label = StudyLabel(pending[ti])
                    /\ plan_blocks'[k].start_min = window_end'
                    /\ plan_blocks'[k].end_min <= window_end
                    /\ \A k2 \in CurrentStudy : plan_blocks'[k].end_min <= plan_blocks[k2].start_min
        /\ (pc = "loop"
            /\ ~PlaceOnce(ThisCall, pending[ti], window_end, remaining, plan_blocks, lines).placed)
              => pc' = "tasks"
        /\ pending' = pending

\* C14: plan terminates for every input. Every step of a call moves it
\* forward (LoopStep): the tasks are taken one after the other, a placement
\* strictly lowers window_end to the start of the placed Study block, which
\* lies before the task's earlier Study blocks and never before the start of
\* the window, and an iteration that finds no free segment or places nothing
\* leaves the loop; so a task's loop makes at most window length many
\* iterations.
C14_Terminates == [][LoopStep]_vars

\* the loop of a task is about to be left with minutes missing, after it
\* placed two Study blocks
C14_Witness ==
    /\ pc = "loop"
    /\ remaining > 0
    /\ Cardinality(CurrentStudy) >= 2
    /\ ~PlaceOnce(ThisCall, pending[ti], window_end, remaining, plan_blocks, lines).placed

\* the blocks a step appends
NewBlocks == DOMAIN plan_blocks' \ DOMAIN plan_blocks

\* a step of the loop that places a Study block
Placement == pc = "loop" /\ pc' = "loop" /\ plan_blocks' # plan_blocks

\* a Break block is appended only with minutes left and adaptive breaks on,
\* it ends at the start of the Study block just placed and starts at or after
\* the start of the window
BreakOnlyIfAdaptive ==
    Placement =>
        \A k \in NewBlocks :
            plan_blocks'[k].kind = "break" =>
                /\ remaining' > 0
                /\ adaptive_breaks
                /\ plan_blocks'[k].end_min = window_end'
                /\ plan_blocks'[k].start_min >= StartBound(now_min, day_start)

NoBreakWhenOff ==
    (pc = "done" /\ ~adaptive_breaks) =>
        \A k \in DOMAIN plan_blocks : plan_blocks[k].kind # "break"

\* C15 as stated: a Break block is inserted after a placement only if minutes
\* remain and adaptive breaks are enabled, so a call with adaptive = false
\* returns no Break block; an inserted Break ends at the start of the Study
\* block just placed and starts no earlier than the start of the window.
C15_BreakOnlyIfAdaptive == [](NoBreakWhenOff) /\ [][BreakOnlyIfAdaptive]_vars

\* the floor of the break: min_gap_between_study + tired * 3
BreakFloor == min_gap_between_study + tired * 3

\* C15 amended: a placement appends at most one Break block, and appends one
\* exactly when minutes remain and the Study block just placed starts after
\* the start of the window, whether adaptive breaks are enabled or not; the
\* Break ends at the start of that Study block, starts no earlier than the
\* start of the window and, unless clipped there, lasts at least the floor
\* min_gap + 3 * tired, which is its exact length when adaptive is false.
C15_BreakAfterStudy ==
    [][Placement =>
        LET brks == {k \in NewBlocks : plan_blocks'[k].kind = "break"}
            ws == StartBound(now_min, day_start)
        IN /\ Cardinality(brks) <= 1
           /\ (brks # {}) <=> (remaining' > 0 /\ window_end' > ws)
           /\ \A k \in brks :
                 /\ plan_blocks'[k].end_min = window_end'
                 /\ plan_blocks'[k].start_min >= ws
                 /\ plan_blocks'[k].start_min < plan_blocks'[k].end_min
                 /\ \/ plan_blocks'[k].start_min = ws
                    \/ plan_blocks'[k].end_min - plan_blocks'[k].start_min >= BreakFloor
                 /\ ~adaptive_breaks =>
                       plan_blocks'[k].end_min - plan_blocks'[k].start_min
                           = Min(BreakFloor, window_end' - ws)]_vars

\* with adaptive breaks off, a Break block was placed and clipped at the
\* start of the window
C15_Witness ==
    /\ pc = "loop"
    /\ ~adaptive_breaks
    /\ plan_blocks # <<>>
    /\ plan_blocks[Len(plan_blocks)].kind = "break"
    /\ plan_blocks[Len(plan_blocks)].start_min = StartBound(now_min, day_start)
    /\ plan_blocks[Len(plan_blocks)].end_min - plan_blocks[Len(plan_blocks)].start_min < BreakFloor

\* the pending tasks whose label block k carries
TasksOf(k) == {j \in DOMAIN pending : plan_blocks[k].label = StudyLabel(pending[j])}

StudyBlocks == {k \in DOMAIN plan_blocks : plan_blocks[k].kind = "study"}

\* C16: every Study block of a task lies inside the task's window, from the
\* horizon to min(day_end, due_min), and lasts at least 1 and at most
\* block_size minutes.
C16_StudyInsideWindow ==
    \A k \in StudyBlocks :
        /\ TasksOf(k) # {}
        /\ \A j \in TasksOf(k) :
              /\ StartBound(now_min, day_start) <= plan_blocks[k].start_min
              /\ plan_blocks[k].end_min <= Min(day_end, pending[j].due_min)
              /\ plan_blocks[k].end_min <= pending[j].due_min
              /\ plan_blocks[k].end_min - plan_blocks[k].start_min >= 1
              /\ plan_blocks[k].end_min - plan_blocks[k].start_min <= block_size

\* a returned plan with a Study block shorter than block_size that starts at
\* the horizon and a Study block of block_size minutes that ends at the due
\* minute
C16_Witness ==
    /\ pc = "done"
    /\ \E k1, k2 \in StudyBlocks :
          /\ plan_blocks[k1].start_min = StartBound(now_min, day_start)
          /\ plan_blocks[k1].end_min - plan_blocks[k1].start_min < block_size
          /\ plan_blocks[k2].end_min - plan_blocks[k2].start_min = block_size
          /\ \E j \in TasksOf(k2) :
                plan_blocks[k2].end_min = pending[j].due_min /\ pending[j].due_min < day_end

\* the intervals that are busy for the running task: buffered lectures and
\* the blocks placed so far
BusyNow ==
    {<<busy[k][1], busy[k][2]>> : k \in DOMAIN busy}
    \cup {<<plan_blocks[k].start_min, plan_blocks[k].end_min>> : k \in DOMAIN plan_blocks}

CoveredNow(p) == \E iv \in BusyNow : iv[1] <= p /\ p < iv[2]

\* the minutes of the current window at which a free segment starts
FreeStarts ==
    {p \in {StartBound(now_min, day_start)} \cup {iv[2] : iv \in BusyNow} :
        /\ StartBound(now_min, day_start) <= p
        /\ p < window_end
        /\ ~CoveredNow(p)}

\* the earliest free segment of the current window
EarliestStart == CHOOSE p \in FreeStarts : \A q \in FreeStarts : p <= q
EarliestEnd ==
    LET stops == {window_end} \cup {iv[1] : iv \in {x \in BusyNow : x[1] > EarliestStart}}
    IN CHOOSE p \in stops : \A q \in stops : p <= q

\* C17: a placement puts exactly one Study block, right-aligned at the end of
\* the earliest free segment of the current window (the one whose end is
\* farthest from the due minute), with length min(block_size, remaining,
\* segment length), even when a free segment closer to the due minute exists.
C17_EarliestSegment ==
    [][Placement =>
        /\ FreeStarts # {}
        /\ Cardinality({k \in NewBlocks : plan_blocks'[k].kind = "study"}) = 1
        /\ \A k \in NewBlocks :
              plan_blocks'[k].kind = "study" =>
                  /\ plan_blocks'[k].end_min = EarliestEnd
                  /\ plan_blocks'[k].start_min =
                        EarliestEnd - Min(block_size, Min(remaining, EarliestEnd - EarliestStart))
                  /\ \A q \in FreeStarts : plan_blocks'[k].end_min <= q \/ q = EarliestStart]_vars

\* a Study block was placed right before the buffered lecture while the
\* window still had free time after the lecture, closer to the due minute
C17_Witness ==
    /\ pc = "loop"
    /\ busy # <<>>
    /\ pending[ti].due_min > busy[1][2]
    /\ window_end < busy[1][1]
    /\ \E k \in CurrentStudy : plan_blocks[k].end_min = busy[1][1]
    /\ \A k \in DOMAIN plan_blocks : plan_blocks[k].end_min <= busy[1][1]

\* ------------------------------------------------------------------------
\* Properties of the returned plan (Spec)
\* ------------------------------------------------------------------------
\* task a is taken before task b
Before(a, b) ==
    \/ a.due_min < b.due_min
    \/ a.due_min = b.due_min /\ a.minutes_needed > b.minutes_needed

\* C18: the returned list has no Study block for a prepared item; the Study
\* blocks of a task, each followed by its Break if it has one, precede those
\* of every task with a later due minute, or the same due minute and fewer
\* minutes needed; a Study block overlaps no block placed before it for
\* another task; and the lecture blocks come after every Study and Break
\* block.
C18_TaskOrder ==
    pc = "done" =>
        /\ \A j \in DOMAIN work :
              work[j].prepared => StudyBlocksOf(plan_blocks, work[j]) = {}
        /\ \A j1, j2 \in DOMAIN work :
              (~work[j1].prepared /\ ~work[j2].prepared /\ Before(work[j1], work[j2])) =>
                  \A k1 \in StudyBlocksOf(plan_blocks, work[j1]) :
                      \A k2 \in StudyBlocksOf(plan_blocks, work[j2]) :
                          /\ k1 < k2
                          /\ ~Overlap(plan_blocks[k1], plan_blocks[k2])
                          /\ \A k \in DOMAIN plan_blocks :
                                (k < k2 /\ k > k1 /\ plan_blocks[k].kind = "break"
                                 /\ plan_blocks[k - 1].label = StudyLabel(work[j1]))
                                    => ~Overlap(plan_blocks[k], plan_blocks[k2])
        /\ \A k \in DOMAIN plan_blocks :
              plan_blocks[k].kind = "break" => (k > 1 /\ plan_blocks[k - 1].kind = "study")
        /\ \A k1, k2 \in DOMAIN plan_blocks :
              (plan_blocks[k1].kind = "lecture" /\ plan_blocks[k2].kind # "lecture") => k2 < k1

\* a returned plan with a lecture block and Study blocks of two tasks due at
\* the same minute, where the task given second needs more and was taken
\* first, with a Break
C18_Witness ==
    /\ pc = "done"
    /\ Len(work) = 2
    /\ ~work[1].prepared /\ ~work[2].prepared
    /\ work[1].due_min = work[2].due_min
    /\ work[1].minutes_needed < work[2].minutes_needed
    /\ StudyBlocksOf(plan_blocks, work[1]) # {}
    /\ StudyBlocksOf(plan_blocks, work[2]) # {}
    /\ \E k \in DOMAIN plan_blocks : plan_blocks[k].kind = "break"
    /\ \E k \in DOMAIN plan_blocks : plan_blocks[k].kind = "lecture"

\* a lecture widened by lecture_buffer_min on both sides and clipped to the day
Buffered(l) ==
    [start_min |-> Max(day_start, l.start_min - lecture_buffer_min),
     end_min |-> Min(day_end, l.end_min + lecture_buffer_min)]

\* C19: a Study block overlaps no buffered lecture interval and no Study or
\* Break block placed before it in the same call.
C19_StudyAvoidsBusy ==
    \A k \in StudyBlocks :
        /\ \A j \in DOMAIN lectures : ~Overlap(plan_blocks[k], Buffered(lectures[j]))
        /\ \A k1 \in DOMAIN plan_blocks :
              (k1 < k /\ plan_blocks[k1].kind \in {"study", "break"})
                  => ~Overlap(plan_blocks[k], plan_blocks[k1])

\* a returned plan with a lecture where a Study block ends at the start of
\* the buffered lecture and a second task got a Study block after a Break of
\* the first
C19_Witness ==
    /\ pc = "done"
    /\ lectures # <<>>
    /\ \E k \in StudyBlocks : plan_blocks[k].end_min = Buffered(lectures[1]).start_min
    /\ \E k1, k2, k3 \in DOMAIN plan_blocks :
          /\ k1 < k2 /\ k2 < k3
          /\ plan_blocks[k1].kind = "study"
          /\ plan_blocks[k2].kind = "break"
          /\ plan_blocks[k3].kind = "study"
          /\ plan_blocks[k3].label # plan_blocks[k1].label

\* ------------------------------------------------------------------------
\* The minutes saved for a task over all dates (SpecApp)
\* ------------------------------------------------------------------------
\* C20: whatever the order in which dates are planned and saved, replanned
\* dates included, the Study minutes saved for a task over all dates never
\* exceed its minutes_needed. (Without lectures every share is placed in
\* full: the day offers at least 360 free minutes before any due minute, and
\* no share exceeds 100.)
C20_NeverOverCommitted ==
    (Generated /\ lec_panel = <<>>) =>
        \A j \in DOMAIN week :
            ~week[j].prepared => CommittedUpTo(week[j], MaxDay) <= week[j].minutes_needed

\* ------------------------------------------------------------------------
\* The shortfall warning (Spec)
\* ------------------------------------------------------------------------
\* the minutes of the window of w, from the horizon to min(day_end, due_min),
\* at which a free segment starts, given the buffered lectures and the blocks
\* placed so far
FreeStartsOf(w) ==
    {p \in {StartBound(now_min, day_start)} \cup {iv[2] : iv \in BusyNow} :
        /\ StartBound(now_min, day_start) <= p
        /\ p < Min(day_end, w.due_min)
        /\ ~CoveredNow(p)}

\* the loop of a task is left with the "Not enough time" warning
ShortfallStep == pc = "loop" /\ pc' = "tasks" /\ remaining > 0

\* C21: when the "Not enough time" warning is emitted for a task with
\* block_size > 0, no free time of positive length is left in the task's
\* window [horizon, min(day_end, due_min)) outside the buffered lectures and
\* the blocks placed so far in the call.
C21_ShortfallMeansFull ==
    [][(ShortfallStep /\ block_size > 0) => FreeStartsOf(pending[ti]) = {}]_vars

====
